---- MODULE Spec2Model ----
(***************************************************************************)
(* Model of the DBGP gateway of tmc/dbgp:                                  *)
(*   - the command dispatcher  Conn.Run        (src/conn.go)               *)
(*   - the gdb console adapter GDB             (src/gdbproxy/gdbproxy.go)  *)
(* The dispatcher is a sequential loop; its position is pc.  The peer on   *)
(* the stream and the gdb console are the environment: what a read         *)
(* returns, whether a write succeeds and what gdb prints are chosen        *)
(* nondeterministically from small sets.                                   *)
(***************************************************************************)
EXTENDS Integers, Sequences, FiniteSets, TLC

\* ------------------------------------------------------------------ bounds
\* Number of commands the peer sends on one connection.
MaxCmds == 2
\* Number of argument groups (a flag with its value, or a lone token) that
\* follow the command name.
MaxArgs == 2
\* Number of capability calls made on one adapter when it is driven directly.
MaxCalls == 3
\* Largest transaction id handed to writeError when it is applied alone.
MaxTxId == 11
\* Length of the payloads and number of messages when the framing is
\* looked at alone.
MaxPayload == 2
MaxMsgs == 2
\* Number of lines and of errors the tasks offer during one collection.
MaxLines == 3
MaxErrs == 1
\* Number of times writeResponse is applied to one input.
MaxRuns == 2
\* Number of calls of consumeLines while the readers are looked at.
MaxCollects == 2

VARIABLES
  pc,        \* position of Conn.Run: "start","read","dispatch","write","returned","panicked"
  parts,     \* result of the last c.next(): the tokens of the command being handled
  txId,      \* *txId     flag variable -i  (conn.go:53)
  depth,     \* *depth    flag variable -d  (conn.go:54)
  fileName,  \* *fileName flag variable -f  (conn.go:55)
  context,   \* *context  flag variable -c  (conn.go:56)
  resp,      \* envelope built and handed to the stream (NoResp when none)
  out,       \* messages written (and flushed) on the stream, oldest first
  nRead,     \* number of commands c.next() has returned so far
  readErr,   \* error the last c.next() returned: "nil", "EOF", or another I/O error
  writeErr,  \* error the last write on the stream returned ("nil" for none)
  runErr,    \* value Run returned ("running" while it has not returned)
  panicVal,  \* value the goroutine panicked with ("none" while it has not)
  status,    \* GDB.status                      (gdbproxy.go:21)
  lang,      \* GDB.features.Language_name      (gdbproxy.go:23,37)
  sent,      \* lines handed to the stdin channel for the command being handled
  called,    \* capability methods invoked for the command being handled
  ret,       \* what the last capability call returned: [val, err, panic]
  nInit,     \* number of calls of the backend's Init
  nCalls,    \* number of capability calls made directly on the adapter
  nSteps,    \* number of StepInto/StepOver calls made on the adapter
  arg,       \* arguments of the function applied (specifications of one function)
  wire,      \* the byte stream of Conn.sock when the framing is looked at alone
  coll,      \* one run of GDB.consumeLines against the clock
  thr,       \* the adapter and the stdin writer task, and the channels between
  enc,       \* the outputs of writeResponse applied repeatedly to one input
  rd,        \* the child's two output streams, their reader tasks, the collector
  proc       \* the child process, its pipes and the adapter's tasks

vars == <<pc, parts, txId, depth, fileName, context, resp, out, nRead,
          readErr, writeErr, runErr, panicVal, status, lang, sent, called,
          ret, nInit, nCalls, nSteps, arg, wire, coll, thr, enc, rd,
          proc>>

\* the flag variables of Run
flagVars == <<txId, depth, fileName, context>>
\* the variables of the stream
sockVars == <<out, nRead, readErr, writeErr>>
\* the variables of the adapter
gdbVars == <<status, lang>>
\* the variables of the direct-call and one-function specifications
\* the variables of the specifications of one component
auxVars == <<wire, coll, thr, enc, rd, proc>>
\* the variables of Run and of the adapter
progVars == <<parts, flagVars, resp, sockVars, runErr, panicVal, gdbVars,
              sent, called, ret, nInit, nSteps, nCalls, arg>>
testVars == <<nCalls, arg, auxVars>>

\* With(v, Body) is Body(v): v is a local variable of the code, bound once.
With(v, Body(_)) == Body(v)

\* ------------------------------------------------------------ conversions
Digit == <<"0", "1", "2", "3", "4", "5", "6", "7", "8", "9">>

\* fmt.Sprint of a non-negative int
RECURSIVE Itoa(_)
Itoa(n) == IF n < 10 THEN Digit[n + 1]
           ELSE Itoa(n \div 10) \o Digit[(n % 10) + 1]

\* strconv.ParseInt / strconv.Atoi on the tokens of the model: the inverse
\* of Itoa on the numbers the model writes, an error on anything else
Numbers == 0..20
IsInt(s) == \E n \in Numbers : Itoa(n) = s
Atoi(s) == CHOOSE n \in Numbers : Itoa(n) = s

\* ------------------------------------------------------- inbound commands
\* Command names the peer may send: the eleven names of the DBGP command
\* table and one name outside it.
Recognized == {"status", "step_into", "step_over", "stack_depth", "source",
               "stack_get", "context_names", "context_get", "property_get",
               "feature_get", "breakpoint_set"}
Names == Recognized \cup {"frobnicate"}

\* Argument groups that may follow the name: "-i N", "-d N", "-d abc" (a
\* value that is no number), "-f URI" and "-n NAME", a flag of the DBGP
\* command line that Run does not define.
ArgGroups ==
  {<<"-i", "1">>, <<"-i", "2">>, <<"-d", "1">>, <<"-d", "abc">>,
   <<"-f", "file:///a.c">>, <<"-n", "x">>}

RECURSIVE Flatten(_)
Flatten(gs) == IF gs = <<>> THEN <<>> ELSE Head(gs) \o Flatten(Tail(gs))

ArgLists == {Flatten(gs) : gs \in UNION {[1..k -> ArgGroups] : k \in 0..MaxArgs}}

\* What c.next() can return for a well-framed message: strings.Split of the
\* text before the NUL, i.e. the name followed by the argument tokens.
Commands == {<<n>> \o a : n \in Names, a \in ArgLists}

\* --------------------------------------------------------- flag.FlagSet
\* The flags Run defines (conn.go:53-56); -i, -d and -c hold ints.
Formal == {"i", "d", "f", "c"}
IntFlags == {"i", "d", "c"}

\* A token that flag.parseOne takes for a flag: "-" and at least one more
\* character.  name is what follows the dash.
FlagSyntax == ("-i" :> "i") @@ ("-d" :> "d") @@ ("-f" :> "f") @@
              ("-c" :> "c") @@ ("-n" :> "n") @@ ("-t" :> "t")

\* flag.Value.Set: an int flag is assigned ParseInt's result, which is 0 when
\* the text is no number, and the error is returned.
SetFlag(fl, name, value) ==
  IF name \in IntFlags
    THEN [fl EXCEPT ![name] = IF IsInt(value) THEN Atoi(value) ELSE 0]
    ELSE [fl EXCEPT ![name] = value]

\* flgs.Parse(parts[1:]) with ContinueOnError: flags are consumed from the
\* front; parsing stops without error at the first token that is no flag and
\* stops with an error at a flag that is not defined, that lacks its value or
\* whose value does not parse.  The values already set are kept.
RECURSIVE Parse(_, _)
Parse(fl, args) ==
  IF args = <<>> THEN [fl |-> fl, err |-> "nil"]
  ELSE LET s == Head(args)
           rest == Tail(args)
       IN IF s \notin DOMAIN FlagSyntax THEN [fl |-> fl, err |-> "nil"]
          ELSE LET name == FlagSyntax[s]
               IN IF name \notin Formal
                    THEN [fl |-> fl, err |-> "flag provided but not defined"]
                  ELSE IF rest = <<>>
                    THEN [fl |-> fl, err |-> "flag needs an argument"]
                  ELSE IF name \in IntFlags /\ ~IsInt(Head(rest))
                    THEN [fl |-> SetFlag(fl, name, Head(rest)),
                          err |-> "invalid value"]
                  ELSE Parse(SetFlag(fl, name, Head(rest)), Tail(rest))

\* ------------------------------------------------------------- errors.go
ErrParseError == [dbgp |-> TRUE, code |-> 1, message |-> "Parse Error"]
ErrInvalidOpts == [dbgp |-> TRUE, code |-> 3, message |-> "Invaild Options"]
ErrUnimplemented == [dbgp |-> TRUE, code |-> 4, message |-> "Unimplemented"]

\* An error value that is no dbgpError; text is its Error() string.
PlainError(text) == [dbgp |-> FALSE, code |-> 0, message |-> text]

\* ------------------------------------------------------ response encoder
NoResp == [kind |-> "none"]

\* writeResponse: the caller's attributes plus command, transaction_id and
\* xmlns, each rendered with fmt.Sprint, around the payload.
writeResponse(cmd, tx, attrs, payload, payloadRaw) ==
  [kind |-> "response",
   attrs |-> ("command" :> cmd) @@ ("transaction_id" :> Itoa(tx)) @@
             ("xmlns" :> "urn:debugger_protocol_v1") @@ attrs,
   payload |-> payload,
   raw |-> payloadRaw]

\* writeError without the type test: every error is coerced to code 999
writeError_AlwaysInternal(cmd, tx, err) ==
  writeResponse(cmd, tx, <<>>,
                [t |-> "error", code |-> 999, message |-> err.message],
                FALSE)

\* writeError: a dbgpError keeps its code and message, any other error
\* becomes code 999 with its text; the result is a response whose payload
\* is the <error> element.
writeError(cmd, tx, err) ==
  LET e == IF err.dbgp THEN err
           ELSE [dbgp |-> TRUE, code |-> 999, message |-> err.message]
  IN writeResponse(cmd, tx, <<>>,
                   [t |-> "error", code |-> e.code, message |-> e.message],
                   FALSE)

\* ---------------------------------------------------------- gdb console
\* The child process is the environment.  A console says what gdb prints,
\* line by line, in answer to each line written to its stdin, as the
\* quiescence collector returns it:
\*   "gdb"    a gdb with the target loaded and running,
\*   "nosym"  a gdb that answers every query with a complaint,
\*   "silent" a child that prints nothing (dead, or slower than the window).
Consoles == {"gdb", "nosym", "silent"}

Banner == <<"GNU gdb (GDB) 7.6", "(gdb) Reading symbols from a.out...done.">>

GdbReply ==
  ("list 1" :> <<"(gdb) 1\tint main() {">>) @@
  ("info source" :> <<"(gdb) Current source file is a.c",
                      "Source language is c.">>) @@
  ("where" :> <<"(gdb) #0  main () at a.c:3">>) @@
  ("info locals" :> <<"(gdb) x = 0x1 ", "y = 0x2 ">>) @@
  ("info args" :> <<>>) @@
  ("ptype x" :> <<"(gdb) type = int">>) @@
  ("ptype y" :> <<"(gdb) type = struct foo {", "    int a;", "}">>) @@
  ("p x" :> <<"(gdb) $1 = 5">>) @@
  ("set breakpoint pending on" :> <<>>) @@
  ("b /a.c:10" :> <<"(gdb) Breakpoint 3 at 0x40: file a.c, line 10.">>) @@
  ("b 1" :> <<"(gdb) Breakpoint 1 at 0x40: file a.c, line 1.">>) @@
  ("run" :> <<"Starting program: a.out">>) @@
  ("s" :> <<"(gdb) 4\t  x = 1;">>) @@
  ("n" :> <<"(gdb) 5\t  y = 2;">>)

NosymReply ==
  ("list 1" :> <<"(gdb) No symbol table is loaded.">>) @@
  ("info source" :> <<"(gdb) No current source file.">>) @@
  ("where" :> <<"(gdb) No stack.">>) @@
  ("info locals" :> <<"(gdb) No frame selected.">>) @@
  ("info args" :> <<"(gdb) No frame selected.">>) @@
  ("p x" :> <<"(gdb) No symbol table is loaded.">>) @@
  ("b /a.c:10" :> <<"(gdb) No symbol table is loaded.">>) @@
  ("b 1" :> <<"(gdb) No symbol table is loaded.">>) @@
  ("run" :> <<"(gdb) No executable file specified.">>) @@
  ("s" :> <<"(gdb) The program is not being run.">>) @@
  ("n" :> <<"(gdb) The program is not being run.">>)

\* what the console prints in answer to one line
Reply(c, line) ==
  IF c = "gdb" /\ line \in DOMAIN GdbReply THEN GdbReply[line]
  ELSE IF c = "nosym" /\ line \in DOMAIN NosymReply THEN NosymReply[line]
  ELSE <<>>

\* what it has printed when the collector runs after these lines were sent
RECURSIVE Replies(_, _)
Replies(c, lines) ==
  IF lines = <<>> THEN <<>>
  ELSE Reply(c, Head(lines)) \o Replies(c, Tail(lines))

\* strings.Replace(l, "(gdb) ", "", 1) on the lines of the model
StripPrompt ==
  ("(gdb) 1\tint main() {" :> "1\tint main() {") @@
  ("(gdb) Current source file is a.c" :> "Current source file is a.c") @@
  ("(gdb) #0  main () at a.c:3" :> "#0  main () at a.c:3") @@
  ("(gdb) x = 0x1 " :> "x = 0x1 ") @@
  ("(gdb) type = int" :> "type = int") @@
  ("(gdb) type = struct foo {" :> "type = struct foo {") @@
  ("(gdb) $1 = 5" :> "$1 = 5") @@
  ("(gdb) Breakpoint 3 at 0x40: file a.c, line 10." :>
     "Breakpoint 3 at 0x40: file a.c, line 10.") @@
  ("(gdb) Breakpoint 1 at 0x40: file a.c, line 1." :>
     "Breakpoint 1 at 0x40: file a.c, line 1.") @@
  ("(gdb) 4\t  x = 1;" :> "4\t  x = 1;") @@
  ("(gdb) 5\t  y = 2;" :> "5\t  y = 2;") @@
  ("(gdb) No symbol table is loaded." :> "No symbol table is loaded.") @@
  ("(gdb) No current source file." :> "No current source file.") @@
  ("(gdb) No stack." :> "No stack.") @@
  ("(gdb) No frame selected." :> "No frame selected.") @@
  ("(gdb) No executable file specified." :> "No executable file specified.") @@
  ("(gdb) The program is not being run." :> "The program is not being run.") @@
  ("(gdb) Reading symbols from a.out...done." :>
     "Reading symbols from a.out...done.")

\* stdoutLines: the collected lines, each without its first "(gdb) "
stdoutLines(c, lines) ==
  LET r == Replies(c, lines)
  IN [k \in 1..Len(r) |->
        IF r[k] \in DOMAIN StripPrompt THEN StripPrompt[r[k]] ELSE r[k]]

\* ------------------------------------------------- fixed-pattern extraction
\* regexp.FindStringSubmatch on the lines of the model: each table maps the
\* lines its pattern matches to the submatches (whole match first).  No
\* pattern matches across a newline, so on joined lines the result is that
\* of the first line that matches.
ReSourceFile ==  \* "Current source file is (.+)"
  ("Current source file is a.c" :> <<"Current source file is a.c", "a.c">>)
ReSourceLang ==  \* "Source language is (.+)."
  ("Source language is c." :> <<"Source language is c.", "c">>)
ReWhere ==       \* "at (.+):([0-9]+)"
  ("#0  main () at a.c:3" :> <<"at a.c:3", "a.c", "3">>)
ReProperty ==    \* "(.+) = (.+) ?(.+)?"  (the greedy second group takes the rest)
  ("x = 0x1 " :> <<"x = 0x1 ", "x", "0x1 ", "">>) @@
  ("y = 0x2 " :> <<"y = 0x2 ", "y", "0x2 ", "">>) @@
  ("type = int" :> <<"type = int", "type", "int", "">>) @@
  ("type = struct foo {" :> <<"type = struct foo {", "type", "struct foo {", "">>) @@
  ("$1 = 5" :> <<"$1 = 5", "$1", "5", "">>) @@
  ("4\t  x = 1;" :> <<"4\t  x = 1;", "4\t  x", "1;", "">>) @@
  ("5\t  y = 2;" :> <<"5\t  y = 2;", "5\t  y", "2;", "">>)
ReValue ==       \* "\$[0-9]+ = (.+)"
  ("$1 = 5" :> <<"$1 = 5", "5">>)
ReBreakpoint ==  \* "Breakpoint ([0-9]+) "
  ("Breakpoint 3 at 0x40: file a.c, line 10." :> <<"Breakpoint 3 ", "3">>) @@
  ("Breakpoint 1 at 0x40: file a.c, line 1." :> <<"Breakpoint 1 ", "1">>)

\* FindStringSubmatch(strings.Join(lines, "\n")): nil (<<>>) when no match
RECURSIVE FindSubmatch(_, _)
FindSubmatch(re, lines) ==
  IF lines = <<>> THEN <<>>
  ELSE IF Head(lines) \in DOMAIN re THEN re[Head(lines)]
  ELSE FindSubmatch(re, Tail(lines))

\* reExtract: the requested groups, or an error when a group is missing
RECURSIVE reExtractGroups(_, _)
reExtractGroups(matches, groups) ==
  IF groups = <<>> THEN [results |-> <<>>, err |-> "nil"]
  ELSE IF Head(groups) > Len(matches) - 1
    THEN [results |-> <<>>, err |-> "not enough matches"]
  ELSE LET r == reExtractGroups(matches, Tail(groups))
       IN IF r.err # "nil" THEN r
          ELSE [results |-> <<matches[Head(groups) + 1]>> \o r.results,
                err |-> "nil"]

reExtract(re, lines, groups) == reExtractGroups(FindSubmatch(re, lines), groups)

\* ------------------------------------------------------ the gdb adapter
\* A capability call is sequential code that sends lines to the stdin
\* channel and collects the console's answer.  Each method is an operator of
\* the adapter g = [status, lang] and the console c, and gives
\*   g      the adapter afterwards,
\*   sent   the lines it handed to the stdin channel, in order,
\*   val    the value it returned,
\*   err    the error it returned ("nil" for none, and for methods without
\*          an error result),
\*   panic  TRUE when it did not return but panicked.
Ret(g, lines, val, err) ==
  [g |-> g, sent |-> lines, val |-> val, err |-> err, panic |-> FALSE]

Panic(g, lines) ==
  [g |-> g, sent |-> lines, val |-> <<>>, err |-> "nil", panic |-> TRUE]

\* New: the adapter as constructed (gdbproxy.go:182-192)
New == [status |-> "starting", lang |-> ""]

\* currentFilenameAndLang: "list 1", collect, "info source", collect, then
\* the two extractions; a failed extraction returns empty strings and the error
currentFilenameAndLang(c) ==
  LET info == stdoutLines(c, <<"info source">>)
      f == reExtract(ReSourceFile, info, <<1>>)
      l == reExtract(ReSourceLang, info, <<1>>)
      e == IF f.err # "nil" THEN f.err ELSE l.err
  IN [sent |-> <<"list 1", "info source">>,
      fn |-> IF e = "nil" THEN f.results[1] ELSE "",
      lang |-> IF e = "nil" THEN l.results[1] ELSE "",
      err |-> e]

\* currentLineNumber: "where", collect, FindStringSubmatch must give 3 items
currentLineNumber(c) ==
  LET matches == FindSubmatch(ReWhere, stdoutLines(c, <<"where">>))
  IN IF Len(matches) # 3
       THEN [sent |-> <<"where">>, line |-> 0,
             err |-> "unexpected match length, expected 3"]
       ELSE [sent |-> <<"where">>, line |-> Atoi(matches[3]), err |-> "nil"]

\* Init: consume the banner, ask for file and language, drop the error
GDB_Init(g, c) ==
  LET r == currentFilenameAndLang(c)
  IN Ret([g EXCEPT !.lang = r.lang], r.sent,
         [appid |-> "gdbproxy", thread |-> "1", language |-> r.lang,
          fileuri |-> "file://" \o r.fn],
         "nil")

Status(g, c) == Ret(g, <<>>, g.status, "nil")

Features(g, c) ==
  Ret(g, <<>>, [Supports_async |-> FALSE, Language_name |-> g.lang], "nil")

\* start without the assignment of line 60
start_KeepsStatus(g) == [g |-> g, sent |-> <<"b 1", "run">>]

\* start that leaves the adapter in "running"
start_SetsRunning(g) ==
  [g |-> [g EXCEPT !.status = "running"], sent |-> <<"b 1", "run">>]

\* start: "b 1", "run", status := "break", collect
start(g) == [g |-> [g EXCEPT !.status = "break"], sent |-> <<"b 1", "run">>]

\* a step that runs start() whatever the status is
Step_AlwaysStarts(g, line) ==
  LET s == start(g)
  IN Ret(s.g, s.sent \o <<line>>, <<"break", "ok">>, "nil")

\* StepInto / StepOver: start() when the status is "starting", then the step
\* line and a collect
Step(g, line) ==
  LET s == IF g.status = "starting" THEN start(g) ELSE [g |-> g, sent |-> <<>>]
  IN Ret(s.g, s.sent \o <<line>>, <<"break", "ok">>, "nil")

StepInto(g, c) == Step(g, "s")

StepOver(g, c) == Step(g, "n")

StackDepth(g, c) == Ret(g, <<>>, 2, "nil")

StackGet(g, c) ==
  LET f == currentFilenameAndLang(c)
      w == currentLineNumber(c)
  IN IF f.err # "nil" THEN Ret(g, f.sent, <<>>, f.err)
     ELSE IF w.err # "nil" THEN Ret(g, f.sent \o w.sent, <<>>, w.err)
     ELSE Ret(g, f.sent \o w.sent,
              <<[Filename |-> "file://" \o f.fn, Type |-> "file",
                 Lineno |-> w.line, Where |-> "{main}"]>>,
              "nil")

\* ContextNames that lists one context per stack level up to depth
ContextNames_PerDepth(g, c, d) ==
  Ret(g, <<>>, [k \in 1..(d + 1) |-> [Name |-> "Local", ID |-> k - 1]], "nil")

\* ContextNames(depth): the depth d is not looked at
ContextNames(g, c, d) ==
  Ret(g, <<>>, <<[Name |-> "Local", ID |-> 0]>>, "nil")

\* strings.Replace(ti, "type = struct ", "", 1) then Replace(ti, " {", "", 1)
TypeDecoration ==
  ("type = struct foo {" :> "foo")

\* getType: "ptype <symbol>", collect, first line without the decoration
getType(c, symbol) ==
  LET typeInfo == stdoutLines(c, <<"ptype " \o symbol>>)
  IN [sent |-> <<"ptype " \o symbol>>,
      type |-> IF Len(typeInfo) = 0 THEN "unknown"
               ELSE IF typeInfo[1] \in DOMAIN TypeDecoration
                 THEN TypeDecoration[typeInfo[1]]
               ELSE typeInfo[1]]

\* the loop of ContextGet over the collected lines
RECURSIVE contextProperties(_, _, _, _)
contextProperties(c, lines, lsent, properties) ==
  IF lines = <<>> THEN [sent |-> lsent, val |-> properties, err |-> "nil"]
  ELSE LET m == reExtract(ReProperty, <<Head(lines)>>, <<1, 2>>)
       IN IF m.err # "nil" THEN [sent |-> lsent, val |-> <<>>, err |-> m.err]
          ELSE LET t == getType(c, m.results[1])
               IN contextProperties(c, Tail(lines), lsent \o t.sent,
                    Append(properties,
                           [Name |-> m.results[1], Fullname |-> m.results[1],
                            Address |-> m.results[2], Type |-> t.type]))

ContextGet(g, c) ==
  LET lines == stdoutLines(c, <<"info locals">>) \o stdoutLines(c, <<"info args">>)
      r == contextProperties(c, lines, <<"info locals", "info args">>, <<>>)
  IN Ret(g, r.sent, r.val, r.err)

\* PropertyGet: "p <name>", collect; vals[0] is read whatever reExtract
\* returned, so a first line that does not match panics (index out of range)
PropertyGet(g, c, name) ==
  LET lines == stdoutLines(c, <<"p " \o name>>)
  IN IF Len(lines) = 0
       THEN Ret(g, <<"p " \o name>>, "", "No output produced.")
     ELSE LET v == reExtract(ReValue, <<lines[1]>>, <<1>>)
          IN IF v.results = <<>> THEN Panic(g, <<"p " \o name>>)
             ELSE Ret(g, <<"p " \o name>>, v.results[1], v.err)

\* strings.TrimPrefix(fileName, "file://")
stripAbsFilePrefix(name) ==
  IF name = "file:///a.c" THEN "/a.c" ELSE name

\* BreakpointSet that passes the file name on as it came
BreakpointSet_KeepsPrefix(g, c, bpType, name, lineNumber) ==
  IF bpType # "line"
    THEN Ret(g, <<>>, [ID |-> 0, State |-> ""],
             "only line breakpoints are supported.")
  ELSE LET cmd == "b " \o name \o ":" \o Itoa(lineNumber)
           lsent == <<"set breakpoint pending on", cmd>>
           m == reExtract(ReBreakpoint, stdoutLines(c, lsent), <<1>>)
       IN IF m.err # "nil" THEN Ret(g, lsent, [ID |-> 0, State |-> ""], m.err)
          ELSE Ret(g, lsent, [ID |-> Atoi(m.results[1]), State |-> "enabled"],
                   "nil")

\* BreakpointSet with the kind tested after the lines are sent
BreakpointSet_KindCheckedLate(g, c, bpType, name, lineNumber) ==
  LET cmd == "b " \o stripAbsFilePrefix(name) \o ":" \o Itoa(lineNumber)
      lsent == <<"set breakpoint pending on", cmd>>
      m == reExtract(ReBreakpoint, stdoutLines(c, lsent), <<1>>)
  IN IF bpType # "line"
       THEN Ret(g, lsent, [ID |-> 0, State |-> ""],
                "only line breakpoints are supported.")
     ELSE IF m.err # "nil" THEN Ret(g, lsent, [ID |-> 0, State |-> ""], m.err)
     ELSE Ret(g, lsent, [ID |-> Atoi(m.results[1]), State |-> "enabled"], "nil")

BreakpointSet(g, c, bpType, name, lineNumber) ==
  IF bpType # "line"
    THEN Ret(g, <<>>, [ID |-> 0, State |-> ""],
             "only line breakpoints are supported.")
  ELSE LET cmd == "b " \o stripAbsFilePrefix(name) \o ":" \o Itoa(lineNumber)
           lsent == <<"set breakpoint pending on", cmd>>
           m == reExtract(ReBreakpoint, stdoutLines(c, lsent), <<1>>)
       IN IF m.err # "nil" THEN Ret(g, lsent, [ID |-> 0, State |-> ""], m.err)
          ELSE Ret(g, lsent, [ID |-> Atoi(m.results[1]), State |-> "enabled"],
                   "nil")

\* --------------------------------------------------------- the dispatcher
NilErr == [dbgp |-> FALSE, code |-> -1, message |-> "<nil>"]

\* the file system the source command reads: path -> content
FileContent == ("/a.c" :> "int main() {}\n")

\* base64.StdEncoding.EncodeToString on the contents of the model
Base64 == ("int main() {}\n" :> "aW50IG1haW4oKSB7fQo=")

NoRet == [val |-> <<>>, err |-> "nil", panic |-> FALSE]
RetOf(r) == [val |-> r.val, err |-> r.err, panic |-> r.panic]

\* The switch of Run (conn.go:74-114) for command cmd with the parsed flag
\* values fl, the adapter g and the console c:
\*   g, sent  the adapter afterwards and the lines it sent to the console,
\*   called   the capability methods invoked, ret what the call returned,
\*   attrs, payload, raw   what the case assembled for writeResponse,
\*   err      the value of err after the switch.
\* The capability results are taken as conn.go binds them: one value per
\* call (two for StepInto); no case assigns a capability's error to err.
Case(r, name, attrs, payload, raw, err) ==
  [g |-> r.g, sent |-> r.sent, called |-> name, ret |-> RetOf(r),
   attrs |-> attrs, payload |-> payload, raw |-> raw, err |-> err]

\* a case that calls no capability
NoCall(g) == [g |-> g, sent |-> <<>>, val |-> <<>>, err |-> "nil", panic |-> FALSE]

\* a switch whose source case hands the failure to open the file on as err
Switch_OpenFailureIsError(cmd, fl, g, c) ==
  CASE cmd = "step_into" ->
         With(StepInto(g, c), LAMBDA r :
           Case(r, {"StepInto"},
                ("status" :> r.val[1]) @@ ("reason" :> r.val[2]),
                [t |-> "nil"], FALSE, NilErr))
    [] cmd = "stack_depth" ->
         With(StackDepth(g, c), LAMBDA r :
           Case(r, {"StackDepth"}, ("depth" :> Itoa(r.val)),
                [t |-> "nil"], FALSE, NilErr))
    [] cmd = "source" ->
         With(stripAbsFilePrefix(fl.f), LAMBDA fn :
           IF fn \notin DOMAIN FileContent
             THEN Case(NoCall(g), {}, <<>>, [t |-> "nil"], FALSE,
                       PlainError("open: no such file or directory"))
             ELSE Case(NoCall(g), {}, ("encoding" :> "base64"),
                       [t |-> "raw",
                        v |-> "<![CDATA[" \o Base64[FileContent[fn]] \o "]]>"],
                       TRUE, NilErr))
    [] cmd = "stack_get" ->
         With(StackGet(g, c), LAMBDA r :
           Case(r, {"StackGet"}, <<>>,
                [t |-> "stack", v |-> r.val], FALSE, NilErr))
    [] cmd = "context_names" ->
         With(ContextNames(g, c, fl.d), LAMBDA r :
           Case(r, {"ContextNames"}, <<>>,
                [t |-> "contexts", v |-> r.val], FALSE, NilErr))
    [] cmd = "context_get" ->
         With(ContextGet(g, c), LAMBDA r :
           Case(r, {"ContextGet"}, <<>>,
                [t |-> "properties", v |-> r.val], FALSE, NilErr))
    [] OTHER ->
         Case(NoCall(g), {}, <<>>, [t |-> "nil"], FALSE, ErrUnimplemented)

Switch(cmd, fl, g, c) ==
  CASE cmd = "step_into" ->
         With(StepInto(g, c), LAMBDA r :
           Case(r, {"StepInto"},
                ("status" :> r.val[1]) @@ ("reason" :> r.val[2]),
                [t |-> "nil"], FALSE, NilErr))
    [] cmd = "stack_depth" ->
         With(StackDepth(g, c), LAMBDA r :
           Case(r, {"StackDepth"}, ("depth" :> Itoa(r.val)),
                [t |-> "nil"], FALSE, NilErr))
    [] cmd = "source" ->
         With(stripAbsFilePrefix(fl.f), LAMBDA fn :
           IF fn \notin DOMAIN FileContent
             THEN Case(NoCall(g), {}, <<>>, [t |-> "nil"], FALSE, NilErr)
             ELSE Case(NoCall(g), {}, ("encoding" :> "base64"),
                       [t |-> "raw",
                        v |-> "<![CDATA[" \o Base64[FileContent[fn]] \o "]]>"],
                       TRUE, NilErr))
    [] cmd = "stack_get" ->
         With(StackGet(g, c), LAMBDA r :
           Case(r, {"StackGet"}, <<>>,
                [t |-> "stack", v |-> r.val], FALSE, NilErr))
    [] cmd = "context_names" ->
         With(ContextNames(g, c, fl.d), LAMBDA r :
           Case(r, {"ContextNames"}, <<>>,
                [t |-> "contexts", v |-> r.val], FALSE, NilErr))
    [] cmd = "context_get" ->
         With(ContextGet(g, c), LAMBDA r :
           Case(r, {"ContextGet"}, <<>>,
                [t |-> "properties", v |-> r.val], FALSE, NilErr))
    [] OTHER ->
         Case(NoCall(g), {}, <<>>, [t |-> "nil"], FALSE, ErrUnimplemented)

\* The envelope of lines 115-119: an error envelope when err is set
Envelope(cmd, tx, h) ==
  IF h.err # NilErr THEN writeError(cmd, tx, h.err)
  ELSE writeResponse(cmd, tx, h.attrs, h.payload, h.raw)

\* sendBytes / sendXml: what reaches the stream.  hdr says whether the
\* payload starts with the XML declaration; seq is the number of the
\* command the message answers (0: none).
Message(kind, hdr, seq) == [kind |-> kind, hdr |-> hdr, seq |-> seq]

\* ------------------------------------------------------------ wire codec
\* Bytes are one-character strings; NUL is the zero byte.
NUL == "NUL"

\* xml.Header: <?xml version="1.0" encoding="UTF-8"?> and a newline
XmlHeader ==
  <<"<", "?", "x", "m", "l", " ", "v", "e", "r", "s", "i", "o", "n", "=",
    "\"", "1", ".", "0", "\"", " ", "e", "n", "c", "o", "d", "i", "n", "g",
    "=", "\"", "U", "T", "F", "-", "8", "\"", "?", ">", "\n">>

\* fmt.Sprint(n) as bytes
RECURSIVE Sprint(_)
Sprint(n) == IF n < 10 THEN <<Digit[n + 1]>>
             ELSE Sprint(n \div 10) \o <<Digit[(n % 10) + 1]>>

\* sendBytes without the closing NUL
sendBytes_NoTerminator(b) == Sprint(Len(b)) \o <<NUL>> \o b

\* sendBytes: the bytes handed to the writer for payload b (conn.go:206-212)
sendBytes(b) == Sprint(Len(b)) \o <<NUL>> \o b \o <<NUL>>

\* sendXml with the length of the document alone
sendXml_LengthOfDocument(b) ==
  Sprint(Len(b)) \o <<NUL>> \o XmlHeader \o b \o <<NUL>>

\* sendXml: the bytes handed to the writer for the marshalled document b
\* (conn.go:189-197)
sendXml(b) == Sprint(Len(b) + Len(XmlHeader)) \o <<NUL>> \o XmlHeader \o b \o <<NUL>>

\* bufio.Reader.ReadString(0): the bytes up to and including the first NUL,
\* or what is left and io.EOF when there is none
ReadString(input) ==
  LET nuls == {i \in 1..Len(input) : input[i] = NUL}
  IN IF nuls = {} THEN [raw |-> input, err |-> "EOF", rest |-> <<>>]
     ELSE LET i == CHOOSE x \in nuls : \A y \in nuls : x <= y
          IN [raw |-> SubSeq(input, 1, i), err |-> "nil",
              rest |-> SubSeq(input, i + 1, Len(input))]

\* strings.Split(s, " "): the pieces between the spaces, at least one
Split(b) ==
  LET cuts == {0, Len(b) + 1} \cup {i \in 1..Len(b) : b[i] = " "}
      cut(k) == CHOOSE x \in cuts : Cardinality({y \in cuts : y < x}) = k - 1
  IN [k \in 1..(Cardinality(cuts) - 1) |->
        SubSeq(b, cut(k) + 1, cut(k + 1) - 1)]

\* Conn.next: ReadString(0), an error returned as it is, else TrimSuffix of
\* the NUL and Split (conn.go:40-46)
next(input) ==
  LET r == ReadString(input)
  IN IF r.err # "nil" THEN [parts |-> <<>>, err |-> r.err, rest |-> r.rest]
     ELSE [parts |-> Split(SubSeq(r.raw, 1, Len(r.raw) - 1)), err |-> "nil",
           rest |-> r.rest]

\* wire: out   the bytes that reached the peer,
\*       msgs  the payloads handed to the writer so far, with the writer used,
\*       in    the bytes the reader has still to read,
\*       got   what the calls of next() returned,
\*       err   the error of the last write ("nil" for none)
NoWire == [out |-> <<>>, msgs |-> <<>>, in |-> <<>>, got |-> <<>>, err |-> "nil"]

\* -------------------------------------------------- quiescence collector
\* var defaultWait = 100 * time.Millisecond, in ticks of 50 ms
defaultWait == 2

\* coll: pc      "select" while consumeLines is in its loop, then "returned",
\*       result  the lines appended so far (lines are numbered as they arrive),
\*       timer   ticks since the time.After of the current select was made,
\*       line    the line a reader task is offering on the channel (0: none),
\*       err     an error is being offered on errChan,
\*       nLines, nErrs  lines and errors offered so far,
\*       gap     ticks since the last line was received (since the call),
\*       early   the lines that arrived less than a window after the one
\*               before, no longer gap having occurred earlier,
\*       late    the lines that arrived after a gap longer than the window,
\*       closed  a gap longer than the window has occurred,
\*       returns number of times consumeLines returned
NoColl == [pc |-> "select", result |-> <<>>, timer |-> 0, line |-> 0,
           err |-> FALSE, nLines |-> 0, nErrs |-> 0, gap |-> 0,
           early |-> {}, late |-> {}, closed |-> FALSE, returns |-> 0]

\* ------------------------------------------- adapter and stdin writer task
\* What a capability does with the channels, in program order, when the
\* child prints nothing: "send" is g.stdin <- line, "collect" is
\* g.stdoutLines(), "break" is g.status = "break".
SendStep(l) == [op |-> "send", line |-> l]
CollectStep == [op |-> "collect", line |-> ""]
BreakStep == [op |-> "break", line |-> ""]

\* currentFilenameAndLang: with no output the first reExtract fails
SourceSteps == <<SendStep("list 1"), CollectStep,
                 SendStep("info source"), CollectStep>>
\* start
StartSteps == <<SendStep("b 1"), SendStep("run"), BreakStep, CollectStep>>

Methods == {"Init", "Status", "Features", "StepInto", "StepOver", "StackDepth",
            "StackGet", "ContextNames", "ContextGet", "PropertyGet",
            "BreakpointSet"}

Script(m, st, bpType) ==
  CASE m = "Init" -> <<CollectStep>> \o SourceSteps
    [] m = "StepInto" ->
         (IF st = "starting" THEN StartSteps ELSE <<>>)
           \o <<SendStep("s"), CollectStep>>
    [] m = "StepOver" ->
         (IF st = "starting" THEN StartSteps ELSE <<>>)
           \o <<SendStep("n"), CollectStep>>
    [] m = "StackGet" -> SourceSteps
    [] m = "ContextGet" -> <<SendStep("info locals"), CollectStep,
                             SendStep("info args"), CollectStep>>
    [] m = "PropertyGet" -> <<SendStep("p x"), CollectStep>>
    [] m = "BreakpointSet" ->
         IF bpType # "line" THEN <<>>
         ELSE <<SendStep("set breakpoint pending on"), SendStep("b a.c:10"),
                CollectStep>>
    [] OTHER -> <<>>

\* thr: child   "dead" (every write to its stdin fails) or "silent" (writes
\*              succeed); its stdout produces nothing either way,
\*      status  g.status,
\*      apc     "idle" between capability calls, "busy" inside one,
\*      script  what the running capability still has to do,
\*      wpc     the writer task's position in its loop: "recv" (s := <-c),
\*              "write" (WriteString(s)), "err1" (errChan <- err), "nl"
\*              (WriteString of the newline), "err2" (errChan <- err), "flush",
\*      bwN     lines held in the bufio.Writer, bwErr its sticky error,
\*      calls, returns  capability calls made and returned,
\*      s       the line the writer task received last,
\*      given   the lines the adapter has handed over, oldest first,
\*      buf     the strings in the buffer of the bufio.Writer,
\*      stdin   the strings that have reached the child's stdin,
\*      flushes calls of bw.Flush made
NoThr == [child |-> "silent", status |-> "starting", apc |-> "idle",
          script |-> <<>>, wpc |-> "recv", bwN |-> 0, bwErr |-> FALSE,
          calls |-> 0, returns |-> 0,
          s |-> "", given |-> <<>>, buf |-> <<>>, stdin |-> <<>>,
          flushes |-> 0]

\* ------------------------------------------ the envelope as it is written
\* The orders in which `for k, v := range attrs` can visit the keys of the
\* map: Go leaves the iteration order of a map unspecified and the runtime
\* varies it from one loop to the next.
RangeOrders(m) ==
  {q \in [1..Cardinality(DOMAIN m) -> DOMAIN m] :
     \A j, k \in DOMAIN q : q[j] = q[k] => j = k}

\* The text writeResponse hands to sendBytes (conn.go:148-169) when the
\* range loop visits the keys in the order q: the attributes as k="v" in
\* that order around the payload.
Render(r, q) ==
  [open |-> "<response",
   attrs |-> [k \in DOMAIN q |-> q[k] \o "=\"" \o r.attrs[q[k]] \o "\""],
   payload |-> r.payload,
   close |-> "</response>"]

NoEnc == <<>>

\* ------------------------------------------------ readers and collections
\* rd: produced  lines the child has written so far on each stream (the
\*               lines of a stream are numbered as they are written),
\*     pipe      lines in the pipe that the scanner has not read yet,
\*     hold      the line a reader task is offering at c <- scanner.Text()
\*               (0: the task is in scanner.Scan),
\*     mode      "collect" while the adapter is in consumeLines(g.stdout),
\*     cur       result of the running consumeLines,
\*     returned  the results of the finished calls, one after the other,
\*     calls     calls of consumeLines made,
\*     late      the stdout lines the child wrote between two calls of
\*               consumeLines, after the earlier one had returned
Streams == {"stdout", "stderr"}
NoRd == [produced |-> [s \in Streams |-> 0],
         pipe |-> [s \in Streams |-> <<>>],
         hold |-> [s \in Streams |-> 0],
         mode |-> "idle", cur |-> <<>>, returned |-> <<>>, calls |-> 0,
         late |-> {}]

\* ---------------------------------------------------- what New starts
\* New (gdbproxy.go:163-193): the child is started with three pipes, and
\* three tasks are started on them.  No statement of the adapter or of Run
\* closes a pipe, ends a task, or signals or waits for the child.
Started == [child |-> "running",
            pipes |-> {"stdin", "stdout", "stderr"},
            tasks |-> {"stdin writer", "stdout reader", "stderr reader"}]

\* -------------------------------------------------------------- actions
Init ==
  /\ pc = "start"
  /\ parts = <<>>
  /\ txId = 0 /\ depth = 0 /\ fileName = "" /\ context = 0
  /\ resp = NoResp
  /\ out = <<>>
  /\ nRead = 0
  /\ readErr = "nil" /\ writeErr = "nil"
  /\ runErr = "running"
  /\ panicVal = "none"
  /\ status = New.status /\ lang = New.lang
  /\ sent = <<>>
  /\ called = {}
  /\ ret = NoRet
  /\ nInit = 0
  /\ nCalls = 0 /\ nSteps = 0
  /\ arg = <<>>
  /\ wire = NoWire
  /\ coll = NoColl
  /\ thr = NoThr
  /\ enc = NoEnc
  /\ rd = NoRd
  /\ proc = Started

\* Run without the handshake: Init is called, nothing is sent
RunInit_SkipsHandshake ==
  /\ pc = "start"
  /\ \E c \in Consoles :
       \E r \in {GDB_Init([status |-> status, lang |-> lang], c)} :
          /\ status' = r.g.status /\ lang' = r.g.lang
  /\ nInit' = nInit + 1
  /\ pc' = "read"
  /\ UNCHANGED <<parts, flagVars, resp, sockVars, runErr, panicVal, sent,
                 called, ret, nSteps, testVars>>

\* c.init(): the backend's Init, then the handshake through sendXml; a
\* failed write makes Run return the error (conn.go:49-51)
RunInit ==
  /\ pc = "start"
  /\ \E c \in Consoles, ok \in BOOLEAN :
       \E r \in {GDB_Init([status |-> status, lang |-> lang], c)} :
          /\ status' = r.g.status /\ lang' = r.g.lang
          /\ nInit' = nInit + 1
          /\ IF ok
               THEN /\ out' = Append(out, Message("init", TRUE, 0))
                    /\ pc' = "read"
                    /\ UNCHANGED <<runErr, writeErr>>
               ELSE /\ out' = out
                    /\ pc' = "returned"
                    /\ writeErr' = "write error" /\ runErr' = "write error"
  /\ UNCHANGED <<parts, flagVars, resp, nRead, readErr, panicVal, sent,
                 called, ret, nSteps, testVars>>

\* c.next() returns a command (conn.go:63)
ReadCommand ==
  /\ pc = "read"
  /\ nRead < MaxCmds
  /\ \E p \in Commands : parts' = p
  /\ nRead' = nRead + 1
  /\ readErr' = "nil"
  /\ pc' = "dispatch"
  /\ UNCHANGED <<flagVars, resp, out, writeErr, runErr, panicVal, gdbVars,
                 sent, called, ret, nInit, nSteps, testVars>>

\* c.next() returns an error, io.EOF when the peer closed the stream
\* (conn.go:63-69): an error envelope for "unknown" is written, its result
\* is ignored, and parts[0] of the nil slice panics
ReadError ==
  /\ pc = "read"
  /\ \E e \in {"EOF", "connection reset by peer"}, ok \in BOOLEAN :
       /\ readErr' = e
       /\ resp' = writeError("unknown", txId, PlainError(e))
       /\ out' = IF ok THEN Append(out, Message("error", FALSE, 0)) ELSE out
       /\ writeErr' = IF ok THEN writeErr ELSE "write error"
  /\ pc' = "panicked"
  /\ panicVal' = "index out of range"
  /\ UNCHANGED <<parts, flagVars, nRead, runErr, gdbVars, sent, called, ret,
                 nInit, nSteps, testVars>>

\* a dispatch whose flags start from their defaults for every command
Dispatch_FlagsReinit ==
  /\ pc = "dispatch"
  /\ \E c \in Consoles, cmd \in {parts[1]},
        fl \in {Parse([i |-> 0, d |-> 0, f |-> "", c |-> 0],
                      Tail(parts)).fl} :
       \E h \in {Switch(cmd, fl, [status |-> status, lang |-> lang], c)} :
          /\ txId' = fl.i /\ depth' = fl.d /\ fileName' = fl.f
          /\ context' = fl.c
          /\ status' = h.g.status /\ lang' = h.g.lang /\ sent' = h.sent
          /\ called' = h.called /\ ret' = h.ret
          /\ nSteps' = IF h.called \subseteq {"StepInto", "StepOver"}
                         THEN nSteps + Cardinality(h.called) ELSE nSteps
          /\ IF h.ret.panic
               THEN /\ pc' = "panicked" /\ panicVal' = "index out of range"
                    /\ resp' = resp
               ELSE /\ pc' = "write" /\ panicVal' = panicVal
                    /\ resp' = Envelope(cmd, fl.i, h)
  /\ UNCHANGED <<parts, sockVars, runErr, nInit, testVars>>

\* cmd := parts[0]; flgs.Parse(parts[1:]); the switch; the envelope
\* (conn.go:69-119, up to the write)
Dispatch ==
  /\ pc = "dispatch"
  /\ \E c \in Consoles, cmd \in {parts[1]},
        fl \in {Parse([i |-> txId, d |-> depth, f |-> fileName, c |-> context],
                      Tail(parts)).fl} :
       \E h \in {Switch(cmd, fl, [status |-> status, lang |-> lang], c)} :
          /\ txId' = fl.i /\ depth' = fl.d /\ fileName' = fl.f
          /\ context' = fl.c
          /\ status' = h.g.status /\ lang' = h.g.lang /\ sent' = h.sent
          /\ called' = h.called /\ ret' = h.ret
          /\ nSteps' = IF h.called \subseteq {"StepInto", "StepOver"}
                         THEN nSteps + Cardinality(h.called) ELSE nSteps
          /\ IF h.ret.panic
               THEN /\ pc' = "panicked" /\ panicVal' = "index out of range"
                    /\ resp' = resp
               ELSE /\ pc' = "write" /\ panicVal' = panicVal
                    /\ resp' = Envelope(cmd, fl.i, h)
  /\ UNCHANGED <<parts, sockVars, runErr, nInit, testVars>>

\* the iteration ends without the envelope reaching the stream
WriteEnvelope_NoWrite ==
  /\ pc = "write"
  /\ pc' = "read"
  /\ parts' = <<>> /\ resp' = NoResp /\ called' = {} /\ sent' = <<>>
  /\ ret' = NoRet
  /\ UNCHANGED <<flagVars, sockVars, runErr, panicVal, gdbVars, nInit,
                 nSteps, testVars>>

\* c.sendBytes: the envelope is written and flushed and the iteration ends
\* (its local variables die), or the write fails and Run panics with the
\* error (conn.go:120-122)
WriteEnvelope ==
  /\ pc = "write"
  /\ \E ok \in BOOLEAN :
       IF ok
         THEN /\ out' = Append(out, Message(IF resp.payload.t = "error"
                                              THEN "error" ELSE "response",
                                            FALSE, nRead))
              /\ pc' = "read"
              /\ parts' = <<>> /\ resp' = NoResp /\ called' = {} /\ sent' = <<>>
              /\ ret' = NoRet
              /\ UNCHANGED <<panicVal, writeErr>>
         ELSE /\ out' = out
              /\ pc' = "panicked" /\ panicVal' = "write error"
              /\ writeErr' = "write error"
              /\ UNCHANGED <<parts, resp, called, sent, ret>>
  /\ UNCHANGED <<flagVars, nRead, readErr, runErr, gdbVars, nInit, nSteps,
                 testVars>>

Next == RunInit \/ ReadCommand \/ ReadError \/ Dispatch \/ WriteEnvelope

Spec == Init /\ [][Next]_vars

\* ------------------------------------------- the adapter driven directly
\* The capability methods called on one adapter in any order, each against
\* whatever the console prints at that moment; at most MaxCalls calls.
InitAdapter ==
  /\ pc = "adapter"
  /\ parts = <<>>
  /\ txId = 0 /\ depth = 0 /\ fileName = "" /\ context = 0
  /\ resp = NoResp
  /\ out = <<>>
  /\ nRead = 0
  /\ readErr = "nil" /\ writeErr = "nil"
  /\ runErr = "running"
  /\ panicVal = "none"
  /\ status = New.status /\ lang = New.lang
  /\ sent = <<>>
  /\ called = {}
  /\ ret = NoRet
  /\ nInit = 0
  /\ nCalls = 0 /\ nSteps = 0
  /\ arg = <<>>
  /\ wire = NoWire
  /\ coll = NoColl
  /\ thr = NoThr
  /\ enc = NoEnc
  /\ rd = NoRd
  /\ proc = Started

\* one call of method name with arguments a whose outcome is r
Call(name, a, r) ==
  /\ pc = "adapter"
  /\ nCalls < MaxCalls
  /\ nCalls' = nCalls + 1
  /\ arg' = a
  /\ status' = r.g.status /\ lang' = r.g.lang
  /\ sent' = r.sent
  /\ called' = {name}
  /\ ret' = RetOf(r)
  /\ nInit' = IF name = "Init" THEN nInit + 1 ELSE nInit
  /\ nSteps' = IF name \in {"StepInto", "StepOver"} THEN nSteps + 1 ELSE nSteps
  /\ pc' = IF r.panic THEN "panicked" ELSE "adapter"
  /\ panicVal' = IF r.panic THEN "index out of range" ELSE panicVal
  /\ UNCHANGED <<parts, flagVars, resp, sockVars, runErr, auxVars>>

\* the adapter as the methods see it
Self == [status |-> status, lang |-> lang]

\* the arguments of a call and the console it ran against
Args(c, bpType, name, lineNumber) ==
  [console |-> c, bpType |-> bpType, name |-> name, lineNumber |-> lineNumber]
NoArgs(c) == Args(c, "", "", 0)

\* the arguments of a call that is given a stack depth, and the depths a
\* caller may pass
DepthArgs(c, d) ==
  [console |-> c, bpType |-> "", name |-> "", lineNumber |-> 0, depth |-> d]
Depths == {0, 1, 5}

\* breakpoint kinds and file names a caller may pass to BreakpointSet
BpTypes == {"line", "watch", "call"}
BpFiles == {"file:///a.c", "/a.c"}

CallInit ==
  \E c \in Consoles : \E r \in {GDB_Init(Self, c)} : Call("Init", NoArgs(c), r)
CallStatus ==
  \E c \in Consoles : \E r \in {Status(Self, c)} : Call("Status", NoArgs(c), r)
CallFeatures ==
  \E c \in Consoles : \E r \in {Features(Self, c)} :
    Call("Features", NoArgs(c), r)
CallStepInto ==
  \E c \in Consoles : \E r \in {StepInto(Self, c)} :
    Call("StepInto", NoArgs(c), r)
CallStepOver ==
  \E c \in Consoles : \E r \in {StepOver(Self, c)} :
    Call("StepOver", NoArgs(c), r)
CallStackDepth ==
  \E c \in Consoles : \E r \in {StackDepth(Self, c)} :
    Call("StackDepth", NoArgs(c), r)
CallStackGet ==
  \E c \in Consoles : \E r \in {StackGet(Self, c)} :
    Call("StackGet", NoArgs(c), r)
CallContextNames ==
  \E c \in Consoles, d \in Depths : \E r \in {ContextNames(Self, c, d)} :
    Call("ContextNames", DepthArgs(c, d), r)
CallContextGet ==
  \E c \in Consoles : \E r \in {ContextGet(Self, c)} :
    Call("ContextGet", NoArgs(c), r)
CallPropertyGet ==
  \E c \in Consoles : \E r \in {PropertyGet(Self, c, "x")} :
    Call("PropertyGet", Args(c, "", "x", 0), r)
CallBreakpointSet ==
  \E c \in Consoles, t \in BpTypes, f \in BpFiles :
    \E r \in {BreakpointSet(Self, c, t, f, 10)} :
      Call("BreakpointSet", Args(c, t, f, 10), r)

NextAdapter ==
  \/ CallInit \/ CallStatus \/ CallFeatures \/ CallStepInto \/ CallStepOver
  \/ CallStackDepth \/ CallStackGet \/ CallContextNames \/ CallContextGet
  \/ CallPropertyGet \/ CallBreakpointSet

SpecAdapter == InitAdapter /\ [][NextAdapter]_vars

\* --------------------------------------------------- writeError applied
\* Error values handed to writeError: the three of errors.go and two that
\* are no dbgpError.
Errors == {ErrParseError, ErrInvalidOpts, ErrUnimplemented,
           PlainError("EOF"), PlainError("not enough matches")}

InitWriteError ==
  /\ pc = "apply"
  /\ parts = <<>>
  /\ txId = 0 /\ depth = 0 /\ fileName = "" /\ context = 0
  /\ resp = NoResp
  /\ out = <<>>
  /\ nRead = 0
  /\ readErr = "nil" /\ writeErr = "nil"
  /\ runErr = "running"
  /\ panicVal = "none"
  /\ status = New.status /\ lang = New.lang
  /\ sent = <<>>
  /\ called = {}
  /\ ret = NoRet
  /\ nInit = 0
  /\ nCalls = 0 /\ nSteps = 0
  /\ arg \in [cmd : Names \cup {"unknown"}, tx : 0..MaxTxId, err : Errors]
  /\ wire = NoWire
  /\ coll = NoColl
  /\ thr = NoThr
  /\ enc = NoEnc
  /\ rd = NoRd
  /\ proc = Started

ApplyWriteError ==
  /\ pc = "apply"
  /\ resp' = writeError(arg.cmd, arg.tx, arg.err)
  /\ pc' = "done"
  /\ UNCHANGED <<parts, flagVars, sockVars, runErr, panicVal, gdbVars, sent,
                 called, ret, nInit, nSteps, testVars>>

NextWriteError == ApplyWriteError

SpecWriteError == InitWriteError /\ [][NextWriteError]_vars


\* ---------------------------------------------------- the framing alone
\* The writer frames up to MaxMsgs payloads, the handshake through sendXml
\* and the envelopes through sendBytes; the stream is then fed to the
\* gateway's own reader.
Bytes == {"a", " ", NUL}
Payloads == UNION {[1..k -> Bytes] : k \in 0..MaxPayload}

InitFraming ==
  /\ pc = "frame"
  /\ parts = <<>>
  /\ txId = 0 /\ depth = 0 /\ fileName = "" /\ context = 0
  /\ resp = NoResp
  /\ out = <<>>
  /\ nRead = 0
  /\ readErr = "nil" /\ writeErr = "nil"
  /\ runErr = "running"
  /\ panicVal = "none"
  /\ status = New.status /\ lang = New.lang
  /\ sent = <<>>
  /\ called = {}
  /\ ret = NoRet
  /\ nInit = 0
  /\ nCalls = 0 /\ nSteps = 0
  /\ arg = <<>>
  /\ wire = NoWire
  /\ coll = NoColl
  /\ thr = NoThr
  /\ enc = NoEnc
  /\ rd = NoRd
  /\ proc = Started

\* one message through the writer: all of frame reaches the peer and the
\* writer is flushed, or the write fails, an error is returned and none or
\* only the start of the frame has reached the peer
Write(kind, b, frame) ==
  /\ pc = "frame"
  /\ Len(wire.msgs) < MaxMsgs
  /\ \E ok \in BOOLEAN :
       IF ok
         THEN /\ wire' = [wire EXCEPT !.out = @ \o frame,
                                      !.msgs = Append(@, [kind |-> kind, b |-> b])]
              /\ pc' = "frame"
         ELSE /\ \E n \in {0, 1} :
                   wire' = [wire EXCEPT !.out = @ \o SubSeq(frame, 1, n),
                                        !.err = "write error"]
              /\ pc' = "failed"
  /\ UNCHANGED <<progVars, coll, thr, enc, rd, proc>>

\* Conn.init: the handshake document through sendXml
SendXml == \E b \in Payloads : \E f \in {sendXml(b)} : Write("xml", b, f)

\* Conn.writeResponse: the envelope through sendBytes
SendBytes == \E b \in Payloads : \E f \in {sendBytes(b)} : Write("bytes", b, f)

\* one message has been written and the stream is handed to a reader
Loopback ==
  /\ pc = "frame"
  /\ Len(wire.msgs) = 1
  /\ wire' = [wire EXCEPT !.in = wire.out]
  /\ pc' = "decode"
  /\ UNCHANGED <<progVars, coll, thr, enc, rd, proc>>

\* one call of Conn.next on it
ReadNext ==
  /\ pc = "decode"
  /\ \E r \in {next(wire.in)} :
       /\ wire' = [wire EXCEPT !.in = r.rest,
                               !.got = Append(@, [parts |-> r.parts, err |-> r.err])]
       /\ pc' = IF r.err # "nil" THEN "done" ELSE "decode"
  /\ UNCHANGED <<progVars, coll, thr, enc, rd, proc>>

NextFraming == SendXml \/ SendBytes \/ Loopback \/ ReadNext

SpecFraming == InitFraming /\ [][NextFraming]_vars


\* ------------------------------------------- the collector and the clock
\* One call of consumeLines.  A select that can receive does so before the
\* clock moves; the timer of a select fires defaultWait ticks after the
\* select was entered.  When a line or an error is ready at the tick the
\* timer fires, select takes either.
InitCollector ==
  /\ pc = "collect"
  /\ parts = <<>>
  /\ txId = 0 /\ depth = 0 /\ fileName = "" /\ context = 0
  /\ resp = NoResp
  /\ out = <<>>
  /\ nRead = 0
  /\ readErr = "nil" /\ writeErr = "nil"
  /\ runErr = "running"
  /\ panicVal = "none"
  /\ status = New.status /\ lang = New.lang
  /\ sent = <<>>
  /\ called = {}
  /\ ret = NoRet
  /\ nInit = 0
  /\ nCalls = 0 /\ nSteps = 0
  /\ arg = <<>>
  /\ wire = NoWire
  /\ coll = NoColl
  /\ thr = NoThr
  /\ enc = NoEnc
  /\ rd = NoRd
  /\ proc = Started

\* scanReaderToan: c <- scanner.Text() (the task blocks until it is taken)
OfferLine ==
  /\ pc = "collect" /\ coll.pc = "select"
  /\ coll.line = 0 /\ coll.nLines < MaxLines
  /\ coll' = [coll EXCEPT
       !.line = coll.nLines + 1,
       !.nLines = @ + 1,
       !.closed = @ \/ coll.gap > defaultWait,
       !.early = IF ~coll.closed /\ coll.gap < defaultWait
                   THEN @ \cup {coll.nLines + 1} ELSE @,
       !.late = IF coll.closed \/ coll.gap > defaultWait
                  THEN @ \cup {coll.nLines + 1} ELSE @]
  /\ UNCHANGED <<pc, progVars, wire, thr, enc, rd, proc>>

\* a reader or the writer task: errChan <- err
OfferError ==
  /\ pc = "collect" /\ coll.pc = "select"
  /\ ~coll.err /\ coll.nErrs < MaxErrs
  /\ coll' = [coll EXCEPT !.err = TRUE, !.nErrs = @ + 1]
  /\ UNCHANGED <<pc, progVars, wire, thr, enc, rd, proc>>

\* case line := <-c: append, and the loop makes a new timer
ReceiveLine ==
  /\ pc = "collect" /\ coll.pc = "select"
  /\ coll.line # 0
  /\ coll' = [coll EXCEPT !.result = Append(@, coll.line), !.line = 0,
                          !.timer = 0, !.gap = 0]
  /\ UNCHANGED <<pc, progVars, wire, thr, enc, rd, proc>>

\* case err := <-g.errChan: logged, and the loop makes a new timer
ReceiveError ==
  /\ pc = "collect" /\ coll.pc = "select"
  /\ coll.err
  /\ coll' = [coll EXCEPT !.err = FALSE, !.timer = 0]
  /\ UNCHANGED <<pc, progVars, wire, thr, enc, rd, proc>>

\* 50 ms pass with nothing to receive and the timer not yet due
Tick ==
  /\ pc = "collect" /\ coll.pc = "select"
  /\ coll.line = 0 /\ ~coll.err
  /\ coll.timer < defaultWait
  /\ coll' = [coll EXCEPT !.timer = @ + 1, !.gap = @ + 1]
  /\ UNCHANGED <<pc, progVars, wire, thr, enc, rd, proc>>

\* case <-time.After(maxWait): return result
Timeout ==
  /\ pc = "collect" /\ coll.pc = "select"
  /\ coll.timer = defaultWait
  /\ coll' = [coll EXCEPT !.pc = "returned", !.returns = @ + 1]
  /\ pc' = "collected"
  /\ UNCHANGED <<progVars, wire, thr, enc, rd, proc>>

NextCollector ==
  OfferLine \/ OfferError \/ ReceiveLine \/ ReceiveError \/ Tick \/ Timeout

SpecCollector == InitCollector /\ [][NextCollector]_vars


\* ------------------------------------ the adapter and the writer task run
\* New: both channels are unbuffered, the writer task waits at s := <-c.
InitPipes ==
  /\ pc = "pipes"
  /\ parts = <<>>
  /\ txId = 0 /\ depth = 0 /\ fileName = "" /\ context = 0
  /\ resp = NoResp
  /\ out = <<>>
  /\ nRead = 0
  /\ readErr = "nil" /\ writeErr = "nil"
  /\ runErr = "running"
  /\ panicVal = "none"
  /\ status = New.status /\ lang = New.lang
  /\ sent = <<>>
  /\ called = {}
  /\ ret = NoRet
  /\ nInit = 0
  /\ nCalls = 0 /\ nSteps = 0
  /\ arg = <<>>
  /\ wire = NoWire
  /\ coll = NoColl
  /\ \E c \in {"dead", "silent"} : thr = [NoThr EXCEPT !.child = c]
  /\ enc = NoEnc
  /\ rd = NoRd
  /\ proc = Started

\* the dispatcher calls a capability
Invoke ==
  /\ pc = "pipes" /\ thr.apc = "idle" /\ thr.calls < MaxCalls
  /\ \E m \in Methods, bpType \in BpTypes :
       thr' = [thr EXCEPT !.apc = "busy", !.calls = @ + 1,
                          !.script = Script(m, thr.status, bpType)]
  /\ UNCHANGED <<pc, progVars, wire, coll, enc, rd, proc>>

\* g.stdin <- line meets s := <-c
Hand ==
  /\ pc = "pipes" /\ thr.apc = "busy"
  /\ thr.script # <<>> /\ Head(thr.script).op = "send"
  /\ thr.wpc = "recv"
  /\ thr' = [thr EXCEPT !.script = Tail(@), !.wpc = "write",
                        !.s = Head(thr.script).line,
                        !.given = Append(@, Head(thr.script).line)]
  /\ UNCHANGED <<pc, progVars, wire, coll, enc, rd, proc>>

\* g.status = "break"
SetBreak ==
  /\ pc = "pipes" /\ thr.apc = "busy"
  /\ thr.script # <<>> /\ Head(thr.script).op = "break"
  /\ thr' = [thr EXCEPT !.script = Tail(@), !.status = "break"]
  /\ UNCHANGED <<pc, progVars, wire, coll, enc, rd, proc>>

\* _, err := bw.WriteString(s): the sticky error of the bufio.Writer, or
\* the line goes into its buffer
WriteLine ==
  /\ pc = "pipes" /\ thr.wpc = "write"
  /\ thr' = IF thr.bwErr THEN [thr EXCEPT !.wpc = "err1"]
             ELSE [thr EXCEPT !.wpc = "nl", !.bwN = 1,
                              !.buf = Append(@, thr.s)]
  /\ UNCHANGED <<pc, progVars, wire, coll, enc, rd, proc>>

\* the writer task goes on to Flush without writing the newline
WriteNewline_Skipped ==
  /\ pc = "pipes" /\ thr.wpc = "nl"
  /\ thr' = [thr EXCEPT !.wpc = IF thr.bwErr THEN "err2" ELSE "flush"]
  /\ UNCHANGED <<pc, progVars, wire, coll, enc, rd, proc>>

\* _, err = bw.WriteString("\n")
WriteNewline ==
  /\ pc = "pipes" /\ thr.wpc = "nl"
  /\ thr' = IF thr.bwErr THEN [thr EXCEPT !.wpc = "err2"]
             ELSE [thr EXCEPT !.wpc = "flush", !.buf = Append(@, "\n")]
  /\ UNCHANGED <<pc, progVars, wire, coll, enc, rd, proc>>

\* errChan <- err meets case err := <-g.errChan of consumeLines
TakeError ==
  /\ pc = "pipes" /\ thr.wpc \in {"err1", "err2"}
  /\ thr.apc = "busy"
  /\ thr.script # <<>> /\ Head(thr.script).op = "collect"
  /\ thr' = [thr EXCEPT !.wpc = IF thr.wpc = "err1" THEN "nl" ELSE "flush"]
  /\ UNCHANGED <<pc, progVars, wire, coll, enc, rd, proc>>

\* bw.Flush(): its error is dropped; a failed write to the pipe stays in
\* the bufio.Writer as its error
Flush ==
  /\ pc = "pipes" /\ thr.wpc = "flush"
  /\ thr' = [thr EXCEPT
       !.wpc = "recv",
       !.flushes = @ + 1,
       !.stdin = IF thr.child = "silent" THEN @ \o thr.buf ELSE @,
       !.buf = IF thr.child = "silent" THEN <<>> ELSE @,
       !.bwN = IF thr.child = "silent" THEN 0 ELSE @,
       !.bwErr = @ \/ (thr.child = "dead" /\ thr.bwN > 0)]
  /\ UNCHANGED <<pc, progVars, wire, coll, enc, rd, proc>>

\* case <-time.After(maxWait) of consumeLines: the idle window is long
\* against the writer task's steps, so the writer is back at s := <-c
Expire ==
  /\ pc = "pipes" /\ thr.apc = "busy"
  /\ thr.script # <<>> /\ Head(thr.script).op = "collect"
  /\ thr.wpc = "recv"
  /\ thr' = [thr EXCEPT !.script = Tail(@)]
  /\ UNCHANGED <<pc, progVars, wire, coll, enc, rd, proc>>

\* the capability returns to the dispatcher
Return ==
  /\ pc = "pipes" /\ thr.apc = "busy" /\ thr.script = <<>>
  /\ thr' = [thr EXCEPT !.apc = "idle", !.returns = @ + 1]
  /\ UNCHANGED <<pc, progVars, wire, coll, enc, rd, proc>>

NextPipes ==
  \/ Invoke \/ Hand \/ SetBreak \/ WriteLine \/ WriteNewline
  \/ TakeError \/ Flush \/ Expire \/ Return

SpecPipes == InitPipes /\ [][NextPipes]_vars


\* ----------------------------------------------- writeResponse applied
\* Inputs of writeResponse: the attributes the switch assembles for
\* stack_depth, for source and for a case that sets none.
EncodeAttrs == {<<>>, ("depth" :> "2"), ("encoding" :> "base64")}

InitEncode ==
  /\ pc = "encode"
  /\ parts = <<>>
  /\ txId = 0 /\ depth = 0 /\ fileName = "" /\ context = 0
  /\ resp = NoResp
  /\ out = <<>>
  /\ nRead = 0
  /\ readErr = "nil" /\ writeErr = "nil"
  /\ runErr = "running"
  /\ panicVal = "none"
  /\ status = New.status /\ lang = New.lang
  /\ sent = <<>>
  /\ called = {}
  /\ ret = NoRet
  /\ nInit = 0
  /\ nCalls = 0 /\ nSteps = 0
  /\ arg \in [cmd : {"stack_depth", "source"}, tx : {0, 7},
               attrs : EncodeAttrs, payload : {[t |-> "nil"]}]
  /\ wire = NoWire
  /\ coll = NoColl
  /\ thr = NoThr
  /\ enc = NoEnc
  /\ rd = NoRd
  /\ proc = Started

\* one run of writeResponse on the input
ApplyWriteResponse ==
  /\ pc = "encode"
  /\ Len(enc) < MaxRuns
  /\ \E r \in {writeResponse(arg.cmd, arg.tx, arg.attrs, arg.payload, FALSE)} :
       /\ resp' = r
       /\ \E q \in RangeOrders(r.attrs) : enc' = Append(enc, Render(r, q))
  /\ UNCHANGED <<pc, parts, flagVars, sockVars, runErr, panicVal, gdbVars,
                 sent, called, ret, nInit, nSteps, nCalls, arg, wire, coll,
                 thr, rd, proc>>

NextEncode == ApplyWriteResponse

SpecEncode == InitEncode /\ [][NextEncode]_vars


\* ------------------------------------ the reader tasks and the collector
\* The child writes lines on its stdout and stderr; one reader task per
\* stream scans them and offers each on its unbuffered channel; the adapter
\* calls consumeLines on g.stdout again and again.  Nothing receives from
\* g.stderr.  Every interleaving is allowed: a collection may expire at any
\* moment.
InitReaders ==
  /\ pc = "readers"
  /\ parts = <<>>
  /\ txId = 0 /\ depth = 0 /\ fileName = "" /\ context = 0
  /\ resp = NoResp
  /\ out = <<>>
  /\ nRead = 0
  /\ readErr = "nil" /\ writeErr = "nil"
  /\ runErr = "running"
  /\ panicVal = "none"
  /\ status = New.status /\ lang = New.lang
  /\ sent = <<>>
  /\ called = {}
  /\ ret = NoRet
  /\ nInit = 0
  /\ nCalls = 0 /\ nSteps = 0
  /\ arg = <<>>
  /\ wire = NoWire
  /\ coll = NoColl
  /\ thr = NoThr
  /\ enc = NoEnc
  /\ rd = NoRd
  /\ proc = Started

\* the child writes its next line on stream s
Produce(s) ==
  /\ pc = "readers"
  /\ rd.produced[s] < MaxLines
  /\ rd' = [rd EXCEPT !.produced[s] = @ + 1,
                      !.pipe[s] = Append(@, rd.produced[s] + 1),
                      !.late = IF s = "stdout" /\ rd.mode = "idle"
                                  /\ rd.calls >= 1
                                 THEN @ \cup {rd.produced[s] + 1} ELSE @]
  /\ UNCHANGED <<pc, progVars, wire, coll, thr, enc, proc>>

\* the reader of s offers the line it holds to nobody and scans the next
Scan_DropsUntaken(s) ==
  /\ pc = "readers"
  /\ rd.pipe[s] # <<>>
  /\ rd' = [rd EXCEPT !.hold[s] = Head(rd.pipe[s]), !.pipe[s] = Tail(@)]
  /\ UNCHANGED <<pc, progVars, wire, coll, thr, enc, proc>>

\* scanReaderToan: scanner.Scan() returns the next line once the line
\* before has been taken from the channel; the task then waits at
\* c <- scanner.Text()
Scan(s) ==
  /\ pc = "readers"
  /\ rd.hold[s] = 0
  /\ rd.pipe[s] # <<>>
  /\ rd' = [rd EXCEPT !.hold[s] = Head(rd.pipe[s]), !.pipe[s] = Tail(@)]
  /\ UNCHANGED <<pc, progVars, wire, coll, thr, enc, proc>>

\* a consumeLines that starts by throwing away the line the reader holds
Collect_DiscardsPending ==
  /\ pc = "readers"
  /\ rd.mode = "idle" /\ rd.calls < MaxCollects
  /\ rd' = [rd EXCEPT !.mode = "collect", !.cur = <<>>, !.calls = @ + 1,
                      !.hold["stdout"] = 0]
  /\ UNCHANGED <<pc, progVars, wire, coll, thr, enc, proc>>

\* the adapter enters consumeLines(g.stdout, defaultWait)
Collect ==
  /\ pc = "readers"
  /\ rd.mode = "idle" /\ rd.calls < MaxCollects
  /\ rd' = [rd EXCEPT !.mode = "collect", !.cur = <<>>, !.calls = @ + 1]
  /\ UNCHANGED <<pc, progVars, wire, coll, thr, enc, proc>>

\* case line := <-c: result = append(result, line)
Take ==
  /\ pc = "readers"
  /\ rd.mode = "collect" /\ rd.hold["stdout"] # 0
  /\ rd' = [rd EXCEPT !.cur = Append(@, rd.hold["stdout"]),
                      !.hold["stdout"] = 0]
  /\ UNCHANGED <<pc, progVars, wire, coll, thr, enc, proc>>

\* case <-time.After(maxWait): return result
Expired ==
  /\ pc = "readers"
  /\ rd.mode = "collect"
  /\ rd' = [rd EXCEPT !.mode = "idle", !.returned = @ \o rd.cur, !.cur = <<>>]
  /\ UNCHANGED <<pc, progVars, wire, coll, thr, enc, proc>>

NextReaders ==
  \/ \E s \in Streams : Produce(s)
  \/ \E s \in Streams : Scan(s)
  \/ Collect \/ Take \/ Expired

SpecReaders == InitReaders /\ [][NextReaders]_vars

\* ------------------------------------------------------------ properties
\* The numbers N of the "-i N" groups a command carries.
TxOf(p) ==
  {Atoi(p[k + 1]) : k \in {j \in 2..(Len(p) - 1) : p[j] = "-i" /\ IsInt(p[j + 1])}}

\* The envelope in resp is an error envelope with this code.
IsError(code) == resp.payload.t = "error" /\ resp.payload.code = code

\* The messages on the stream that answer a command, oldest first.
Answers == SelectSeq(out, LAMBDA m : m.seq > 0)

\* The int-valued flags of a command all carry a number.
WellFormed(p) ==
  \A j \in 2..(Len(p) - 1) :
    (p[j] \in DOMAIN FlagSyntax /\ FlagSyntax[p[j]] \in IntFlags) => IsInt(p[j + 1])

\* C1: the envelope built for a command that carries "-i N" (its flags
\* well-formed) has transaction_id N and command equal to the command's name.
C1_TransactionEchoed ==
  (pc = "write" /\ WellFormed(parts)) =>
    /\ resp.attrs["command"] = parts[1]
    /\ \A n \in Numbers :
         TxOf(parts) = {n} => resp.attrs["transaction_id"] = Itoa(n)

\* C2: a command whose name is not in the table is answered with an error
\* envelope of code 4 that carries its name and its transaction id, no
\* capability method is called for it, and the loop goes on.
C2_UnknownCommandUnimplemented ==
  (pc = "write" /\ parts[1] \notin Recognized /\ WellFormed(parts)) =>
    /\ IsError(4)
    /\ resp.attrs["command"] = parts[1]
    /\ \A n \in Numbers :
         TxOf(parts) = {n} => resp.attrs["transaction_id"] = Itoa(n)
    /\ called = {}
    /\ ENABLED WriteEnvelope

\* C3: each of the eleven recognized commands is routed to its capability
\* method (source: to the file read) and is never answered Unimplemented(4).
C3_RecognizedCommandsRouted ==
  (pc = "write" /\ parts[1] \in Recognized) =>
    /\ ~IsError(4)
    /\ parts[1] # "source" => called # {}

\* C4: one command at a time.  The answers on the stream are those of the
\* commands read, one each and in the order read; while a command is being
\* handled exactly the commands before it are answered, and the next
\* command is read only when every command read is answered.
C4_OneAnswerPerCommandInOrder ==
  /\ \A k \in 1..Len(Answers) : Answers[k].seq = k
  /\ pc \in {"dispatch", "write"} => Len(Answers) = nRead - 1
  /\ pc = "dispatch" => resp = NoResp /\ called = {}
  /\ pc = "write" => resp.kind = "response"
  /\ pc = "read" => Len(Answers) = nRead /\ resp = NoResp
  /\ pc = "panicked" => Len(Answers) \in {nRead - 1, nRead}

\* a command has been answered and a second one is being handled
C4_Witness == pc = "write" /\ nRead = 2 /\ Len(Answers) = 1 /\ called # {}

\* C5: at end-of-stream Run stops cleanly: no panic, no error, nothing
\* further dispatched or written.
C5_CleanStopAtEndOfStream ==
  readErr = "EOF" =>
    /\ panicVal = "none"
    /\ pc = "returned" /\ runErr = "nil"

\* C6: an I/O failure on read or write ends the loop and is returned by Run
\* as an error; the process does not abort.
C6_IoFailureReturned ==
  (readErr # "EOF" /\ (readErr # "nil" \/ writeErr # "nil")) =>
    /\ panicVal = "none"
    /\ pc = "returned" /\ runErr \notin {"running", "nil"}

\* C7: a capability call that fails is answered with an error envelope that
\* bears the command's name and transaction id, and the loop continues.
C7_CapabilityFailureAnswered ==
  (pc = "write" /\ ret.err # "nil") =>
    /\ resp.payload.t = "error"
    /\ resp.attrs["command"] = parts[1]

\* C9: the init handshake is the first message on the stream, it is the
\* only handshake, it is there before a command is read, and the backend's
\* Init is called once.
C9_HandshakeOnceAndFirst ==
  /\ \A k \in 1..Len(out) : (out[k].kind = "init") <=> (k = 1)
  /\ pc \in {"read", "dispatch", "write", "panicked"} => Len(out) >= 1
  /\ nRead > 0 => Len(out) >= 1
  /\ nInit = IF pc = "start" THEN 0 ELSE 1

\* the handshake and an answer are on the stream
C9_Witness == Len(out) = 2 /\ out[1].kind = "init" /\ nRead = 1 /\ nInit = 1

\* C8: writeError renders a dbgpError (codes 1, 3, 4) with its own code and
\* message and any other error as code 999 with the error's text; the
\* envelope keeps the command name and the transaction id it was given.
C8_WriteErrorCoercion ==
  pc = "done" =>
    /\ resp.payload.t = "error"
    /\ arg.err.dbgp =>
         /\ resp.payload.code = arg.err.code /\ arg.err.code \in {1, 3, 4}
         /\ resp.payload.message = arg.err.message
    /\ ~arg.err.dbgp =>
         /\ resp.payload.code = 999
         /\ resp.payload.message = arg.err.message
    /\ resp.attrs["command"] = arg.cmd
    /\ resp.attrs["transaction_id"] = Itoa(arg.tx)

\* a dbgpError and a plain error have been rendered
C8_Witness ==
  /\ pc = "done" /\ arg.err = ErrInvalidOpts /\ arg.tx = 10
  /\ resp.payload.code = 3 /\ resp.attrs["transaction_id"] = "10"

\* C10: the adapter's status is "starting" until the first StepInto or
\* StepOver, "break" after any number >= 1 of them, and both calls return
\* ("break", "ok").
C10_StartingThenBreak ==
  /\ nSteps = 0 => status = "starting"
  /\ nSteps >= 1 => status = "break"
  /\ (called # {} /\ called \subseteq {"StepInto", "StepOver"}) =>
       /\ ~ret.panic
       /\ ret.val = <<"break", "ok">>

\* a second step has returned on an adapter that is in "break"
C10_Witness ==
  /\ nSteps = 2 /\ called = {"StepOver"} /\ status = "break"
  /\ ret.val = <<"break", "ok">> /\ sent = <<"n">>

\* C13: BreakpointSet with a kind other than "line" fails before anything
\* is sent to the console: an error is returned, no line is handed to the
\* writer, and the adapter's status (and language) is what it was.
C13_OtherKindsRejectedFirst ==
  [][(nCalls' = nCalls + 1 /\ called' = {"BreakpointSet"}
        /\ arg'.bpType # "line") =>
       (/\ ret'.err = "only line breakpoints are supported."
        /\ ~ret'.panic
        /\ ret'.val = [ID |-> 0, State |-> ""]
        /\ sent' = <<>>
        /\ status' = status /\ lang' = lang)]_vars

\* a "watch" breakpoint was asked for on an adapter that is in "break"
C13_Witness ==
  /\ called = {"BreakpointSet"} /\ arg.bpType = "watch" /\ status = "break"
  /\ ret.err # "nil" /\ sent = <<>>

\* The breakpoint numbers the console announced in these lines.
Announced(lines) ==
  {n \in Numbers :
     \E k \in 1..Len(lines) :
       lines[k] = "Breakpoint " \o Itoa(n) \o " at 0x40: file a.c, line 10."}

\* C14: BreakpointSet("line", file, n) sends "set breakpoint pending on" and
\* then "b <file without file://>:<n>"; when the collected output has
\* "Breakpoint N " it returns {N, "enabled"}, otherwise an error and no
\* breakpoint record.
C14_LineBreakpointRegistered ==
  (called = {"BreakpointSet"} /\ arg.bpType = "line") =>
    /\ sent = <<"set breakpoint pending on",
                "b /a.c:" \o Itoa(arg.lineNumber)>>
    /\ ~ret.panic
    /\ LET ns == Announced(stdoutLines(arg.console, sent))
       IN /\ ns # {} => /\ ret.err = "nil"
                         /\ ret.val.State = "enabled" /\ ret.val.ID \in ns
          /\ ns = {} => /\ ret.err # "nil"
                         /\ ret.val = [ID |-> 0, State |-> ""]

\* gdb announced breakpoint 3 for a file given with its file:// prefix
C14_Witness ==
  /\ called = {"BreakpointSet"} /\ arg.bpType = "line"
  /\ arg.name = "file:///a.c" /\ arg.console = "gdb"
  /\ ret.val = [ID |-> 3, State |-> "enabled"] /\ ret.err = "nil"

\* C15: for the console lines "x = 0x1 " and "y = 0x2 " of "info locals"
\* (and none of "info args") ContextGet sends "info locals", "info args"
\* and one "ptype <name>" per entry, and returns two properties, x and y in
\* that order, whose addresses are exactly "0x1" and "0x2".
C15_ContextGetProperties ==
  (called = {"ContextGet"} /\ arg.console = "gdb") =>
    /\ ret.err = "nil" /\ ~ret.panic
    /\ sent = <<"info locals", "info args", "ptype x", "ptype y">>
    /\ Len(ret.val) = 2
    /\ ret.val[1].Name = "x" /\ ret.val[1].Address = "0x1"
    /\ ret.val[2].Name = "y" /\ ret.val[2].Address = "0x2"

\* C15 without the addresses: the entries, their order and the lines sent
C15_ContextGetNamesAndLines ==
  (called = {"ContextGet"} /\ arg.console = "gdb") =>
    /\ ret.err = "nil" /\ ~ret.panic
    /\ sent = <<"info locals", "info args", "ptype x", "ptype y">>
    /\ Len(ret.val) = 2
    /\ ret.val[1].Name = "x" /\ ret.val[2].Name = "y"

\* The call just made read console output that has not the text its
\* pattern looks for: a complaint of gdb, or nothing where a line is needed.
Mismatch ==
  \/ /\ called \subseteq {"Init", "StackGet", "PropertyGet"} /\ called # {}
     /\ arg.console \in {"nosym", "silent"}
  \/ /\ called = {"BreakpointSet"} /\ arg.bpType = "line"
     /\ arg.console \in {"nosym", "silent"}
  \/ /\ called = {"ContextGet"} /\ arg.console = "nosym"

\* C16: a call whose console output does not match the expected pattern
\* returns an error; it yields no default or partial value and does not
\* index an empty match result.
C16_MismatchIsAnError ==
  Mismatch => (ret.err # "nil" /\ ~ret.panic)

\* C16 for the calls that do propagate the failure
C16_MismatchIsAnErrorElsewhere ==
  (Mismatch /\ called \subseteq {"StackGet", "ContextGet", "BreakpointSet"}) =>
    (ret.err # "nil" /\ ~ret.panic)

\* The positions of flag f in command p, and the value it is given last.
FlagAt(p, f) == {j \in 2..(Len(p) - 1) : p[j] = f}
LastOf(p, f) == p[(CHOOSE j \in FlagAt(p, f) : \A k \in FlagAt(p, f) : k <= j) + 1]
\* Command p has a flag that Run does not define.
HasUnknownFlag(p) ==
  \E j \in 2..Len(p) : p[j] \in DOMAIN FlagSyntax /\ FlagSyntax[p[j]] \notin Formal

\* The flag variables hold what command p gives for -i, -d and -f, and the
\* envelope carries the transaction id.
FlagsTaken(p) ==
  /\ FlagAt(p, "-i") # {} =>
       /\ txId = Atoi(LastOf(p, "-i"))
       /\ resp.attrs["transaction_id"] = LastOf(p, "-i")
  /\ FlagAt(p, "-d") # {} => depth = Atoi(LastOf(p, "-d"))
  /\ FlagAt(p, "-f") # {} => fileName = LastOf(p, "-f")

\* C20: a flag Run does not define (-n, -t) is ignored: the known flags of
\* the command, those after it included, are parsed and the envelope carries
\* the command's own transaction id.
C20_UnknownFlagsIgnored ==
  (pc = "write" /\ WellFormed(parts)) => FlagsTaken(parts)

\* C20 for the commands that have no such flag
C20_KnownFlagsTaken ==
  (pc = "write" /\ WellFormed(parts) /\ ~HasUnknownFlag(parts)) =>
    FlagsTaken(parts)

\* The number a sequence of decimal digits denotes (-1: no number).
RECURSIVE Decimal(_)
Decimal(ds) ==
  IF ds = <<>> THEN -1
  ELSE IF \E i \in 1..Len(ds) : \A v \in 0..9 : Digit[v + 1] # ds[i] THEN -1
  ELSE LET v == CHOOSE x \in 0..9 : Digit[x + 1] = ds[Len(ds)]
       IN IF Len(ds) = 1 THEN v
          ELSE 10 * Decimal(SubSeq(ds, 1, Len(ds) - 1)) + v

\* A decoder of <decimal length> NUL <payload> NUL: the digits up to the
\* first NUL, exactly that many bytes, and the NUL that must follow.
DecodeMessage(stream) ==
  LET h == ReadString(stream)
      n == Decimal(SubSeq(h.raw, 1, Len(h.raw) - 1))
  IN IF h.err # "nil" \/ n < 0 \/ Len(h.rest) < n + 1
          \/ h.rest[n + 1] # NUL
       THEN [ok |-> FALSE, payload |-> <<>>, rest |-> stream]
     ELSE [ok |-> TRUE, payload |-> SubSeq(h.rest, 1, n),
           rest |-> SubSeq(h.rest, n + 2, Len(h.rest))]

\* The payloads of the messages of a stream; <<"garbage">>, which is no
\* payload, where the stream is no message.
RECURSIVE DecodeAll(_)
DecodeAll(stream) ==
  IF stream = <<>> THEN <<>>
  ELSE LET d == DecodeMessage(stream)
       IN IF d.ok THEN <<d.payload>> \o DecodeAll(d.rest) ELSE <<(<<"garbage">>)>>

\* The payload of a message handed to the writer: the handshake document is
\* preceded by the XML declaration.
PayloadOf(m) == IF m.kind = "xml" THEN XmlHeader \o m.b ELSE m.b

\* C17: every message written is <decimal length> NUL <payload> NUL with the
\* length equal to the number of payload bytes (the handshake's payload
\* includes the XML declaration), and nothing written is left unflushed.
C17_LengthPrefixedFrames ==
  wire.err = "nil" =>
    DecodeAll(wire.out) = [k \in 1..Len(wire.msgs) |-> PayloadOf(wire.msgs[k])]

\* a handshake and an envelope that holds a NUL and a space are on the stream
C17_Witness ==
  /\ wire.err = "nil" /\ Len(wire.msgs) = 2
  /\ wire.msgs[1].kind = "xml" /\ wire.msgs[2] = [kind |-> "bytes", b |-> <<NUL, " ">>]
  /\ SubSeq(wire.out, 1, 3) = <<"3", "9", NUL>>

\* strings.Join(parts, " ")
RECURSIVE Join(_)
Join(ps) == IF Len(ps) = 1 THEN ps[1] ELSE ps[1] \o <<" ">> \o Join(Tail(ps))

\* The first message on the stream went through sendBytes, has no NUL in
\* its payload, and the reader has been called at least n times on it.
ReadBack(n) ==
  /\ pc \in {"decode", "done"} /\ wire.err = "nil"
  /\ wire.msgs[1].kind = "bytes"
  /\ \A i \in 1..Len(wire.msgs[1].b) : wire.msgs[1].b[i] # NUL
  /\ Len(wire.got) >= n

C19_DeclarationOnEveryMessage ==
  wire.err = "nil" =>
    LET ds == DecodeAll(wire.out)
    IN /\ Len(ds) = Len(wire.msgs)
       /\ \A k \in 1..Len(ds) :
            /\ Len(ds[k]) >= Len(XmlHeader)
            /\ SubSeq(ds[k], 1, Len(XmlHeader)) = XmlHeader

\* C19 for the handshake alone
C19_DeclarationOnHandshake ==
  wire.err = "nil" =>
    LET ds == DecodeAll(wire.out)
    IN /\ Len(ds) = Len(wire.msgs)
       /\ \A k \in 1..Len(ds) :
            wire.msgs[k].kind = "xml" =>
              SubSeq(ds[k], 1, Len(XmlHeader)) = XmlHeader

\* The elements of a sequence, and "in order, each once".
Range(q) == {q[k] : k \in 1..Len(q)}
Increasing(q) == \A j, k \in 1..Len(q) : j < k => q[j] < q[k]

\* C11: consumeLines returns, once, exactly the lines that arrived before
\* the first gap of at least the idle window: in arrival order, each once,
\* every line that arrived within the window of the one before, and no line
\* that arrived after a longer gap.  (A line that arrives at the very tick
\* the window ends may be in or out.)
C11_LinesBeforeFirstGap ==
  /\ coll.timer <= defaultWait
  /\ Increasing(coll.result)
  /\ Range(coll.result) \cap coll.late = {}
  /\ coll.pc = "returned" =>
       /\ coll.returns = 1
       /\ coll.early \subseteq Range(coll.result)

\* C11 when no error is offered on errChan during the collection
C11_LinesBeforeFirstGapNoError ==
  coll.nErrs = 0 => C11_LinesBeforeFirstGap

\* three lines close together, then silence: all three are returned
C11_Witness ==
  /\ coll.pc = "returned" /\ coll.result = <<1, 2, 3>>
  /\ coll.early = {1, 2, 3} /\ coll.nErrs = 0

\* The adapter waits at g.stdin <- line while the writer task waits at
\* errChan <- err: neither can move, nothing else receives from errChan.
BlockedForever ==
  /\ thr.apc = "busy"
  /\ thr.script # <<>> /\ Head(thr.script).op = "send"
  /\ thr.wpc \in {"err1", "err2"}

\* C12: with a dead or silent child every capability call returns; the
\* adapter never blocks forever on handing a line to the writer task or on
\* the error channel: while a call is running some step can be taken.
C12_CallsAlwaysReturn ==
  /\ ~BlockedForever
  /\ (pc = "pipes" /\ thr.apc = "busy") => ENABLED NextPipes

\* C12 for a child that is silent but takes what is written to it
C12_SilentChildReturns ==
  thr.child = "silent" => C12_CallsAlwaysReturn

\* What flgs.Parse returns for the flags of command p.
ParseErr(p) == Parse([i |-> 0, d |-> 0, f |-> "", c |-> 0], Tail(p)).err

\* C21: a command whose flags do not parse (a flag without its value, a
\* value that is no number for an int flag) is answered with an error
\* envelope and not with a success response, and no capability method is
\* called for it.
C21_UnparsableFlagsRejected ==
  (pc = "write" /\ ParseErr(parts) \in {"invalid value", "flag needs an argument"}) =>
    /\ resp.payload.t = "error"
    /\ called = {}

\* C21 for the names the switch has no case for, which the default case
\* answers with Unimplemented(4)
C21_UnparsableFlagsNoCase ==
  (pc = "write"
     /\ parts[1] \notin {"step_into", "stack_depth", "source", "stack_get",
                         "context_names", "context_get"}
     /\ ParseErr(parts) \in {"invalid value", "flag needs an argument"}) =>
    (IsError(4) /\ called = {})

\* C22: two runs of writeResponse on the same command name, transaction
\* id, attributes and payload write the same text, attribute for attribute
\* in the same order.
C22_EncodingDeterministic ==
  \A j, k \in 1..Len(enc) : enc[j] = enc[k]

\* C22 up to the order of the attributes: the runs write the same
\* attributes around the same payload
C22_SameAttributesAnyOrder ==
  \A j, k \in 1..Len(enc) :
    /\ Range(enc[j].attrs) = Range(enc[k].attrs)
    /\ Len(enc[j].attrs) = Len(enc[k].attrs)
    /\ enc[j].payload = enc[k].payload

\* The lines 1..n of a stream, in the order the child wrote them.
LinesUpTo(n) == [k \in 1..n |-> k]
\* What the calls of consumeLines have returned and collected so far.
Delivered == rd.returned \o rd.cur
\* The line a reader task holds, as a sequence.
Held(s) == IF rd.hold[s] = 0 THEN <<>> ELSE <<rd.hold[s]>>

\* C23: the results of the successive calls of consumeLines on stdout, one
\* after the other, are a prefix of the lines the child wrote on stdout, in
\* the child's order; the lines not yet delivered are the rest of them, held
\* by the reader task or still in the pipe: none lost, none twice.
C23_StdoutLinesInOrder ==
  /\ Delivered = LinesUpTo(Len(Delivered))
  /\ Delivered \o Held("stdout") \o rd.pipe["stdout"]
       = LinesUpTo(rd.produced["stdout"])

\* three lines over two calls: two returned by the first, the third
\* collected by the second
C23_Witness ==
  /\ rd.calls = 2 /\ rd.returned = <<1, 2>> /\ rd.cur = <<3>>
  /\ rd.mode = "collect"

\* C29: publishing a line never blocks a reader task, on stdout and on
\* stderr alike: a task that holds a scanned line is not kept from
\* scanning on while more output waits in the pipe, so the child's stderr
\* keeps being drained.
C29_PublishingNeverBlocks ==
  \A s \in Streams :
    (rd.hold[s] # 0 /\ rd.pipe[s] # <<>>) => ENABLED Scan(s)

\* what the stderr reader does: it scans the first line of stderr and no
\* other, whatever the adapter collects
C29_StderrReaderScansOneLine ==
  /\ rd.produced["stderr"] - Len(rd.pipe["stderr"]) <= 1
  /\ rd.hold["stderr"] \in {0, 1}

\* Run has ended: it returned an error or its goroutine panicked.
RunEnded == pc \in {"returned", "panicked"}

\* C24: when Run has ended (stream closed, fatal I/O error) the child
\* process has been stopped, its pipes are closed and no task of the adapter
\* is left running or blocked.
C24_TornDownWithConnection ==
  RunEnded =>
    /\ proc.child = "stopped"
    /\ proc.pipes = {}
    /\ proc.tasks = {}

\* what Run does to the backend: nothing, at any point
C24_BackendLeftAsStarted ==
  pc \in {"start", "read", "dispatch", "write", "returned", "panicked"} =>
    proc = Started

\* The envelope in resp is the answer of the source command for the file
\* at path fn: its content as base64 inside CDATA, written raw, with the
\* attribute encoding="base64".
SourceAnswer(fn) ==
  /\ resp.payload.t = "raw"
  /\ resp.payload.v = "<![CDATA[" \o Base64[FileContent[fn]] \o "]]>"
  /\ resp.raw
  /\ "encoding" \in DOMAIN resp.attrs
  /\ resp.attrs["encoding"] = "base64"

\* Command p is a source command that names a file that can be read.
SourceOf(p) ==
  /\ p[1] = "source" /\ WellFormed(p)
  /\ FlagAt(p, "-f") # {}
  /\ stripAbsFilePrefix(LastOf(p, "-f")) \in DOMAIN FileContent

\* C25: the source command answers with the content of the file named by
\* its -f flag (file:// removed) as base64 inside CDATA, raw, with
\* encoding="base64", and calls no capability method.
C25_SourceReturnsFile ==
  (pc = "write" /\ SourceOf(parts)) =>
    /\ SourceAnswer(stripAbsFilePrefix(LastOf(parts, "-f")))
    /\ called = {}

\* C25 for the source commands that carry no flag Run does not define
C25_SourceReturnsFileKnownFlags ==
  (pc = "write" /\ SourceOf(parts) /\ ~HasUnknownFlag(parts)) =>
    /\ SourceAnswer(stripAbsFilePrefix(LastOf(parts, "-f")))
    /\ called = {}

\* The console line of a step call.
StepLine(name) == IF name = "StepInto" THEN "s" ELSE "n"

\* C26: a StepInto/StepOver call made while the status is "starting" sends
\* "b 1", "run" and then its own step line and leaves the status "break";
\* a step call made later sends its step line alone; and no call other
\* than a step made in "starting" sends "b 1" or "run", so the start
\* sequence is sent once at most.
C26_StartSequenceOnce ==
  [][nCalls' = nCalls + 1 =>
       /\ \A name \in {"StepInto", "StepOver"} :
            called' = {name} =>
              IF status = "starting"
                THEN /\ sent' = <<"b 1", "run", StepLine(name)>>
                     /\ status' = "break"
                ELSE /\ sent' = <<StepLine(name)>>
                     /\ status' = status
       /\ ({"b 1", "run"} \cap Range(sent') # {}) =>
            /\ status = "starting" /\ status' = "break"
            /\ called' \subseteq {"StepInto", "StepOver"}]_vars

\* a second StepInto has sent its step line alone
C26_Witness ==
  /\ nSteps = 2 /\ called = {"StepInto"} /\ sent = <<"s">>
  /\ status = "break"

\* C27: the adapter's status is always "starting" or "break", and once it
\* is "break" no operation takes it back to "starting".
C27_StatusStartingOrBreak ==
  /\ [](status \in {"starting", "break"})
  /\ [][status = "break" => status' = "break"]_vars

\* Init has been called again on an adapter that is in "break"
C27_Witness ==
  /\ status = "break" /\ called = {"Init"} /\ nSteps >= 1

\* The lines ls as they go to the child: each followed by a newline.
RECURSIVE WithNewlines(_)
WithNewlines(ls) ==
  IF ls = <<>> THEN <<>> ELSE <<Head(ls), "\n">> \o WithNewlines(Tail(ls))

IsPrefix(p, q) == Len(p) <= Len(q) /\ p = SubSeq(q, 1, Len(p))

\* C28: what the writer task has written is the lines the adapter handed
\* over, in that order, each followed by one newline; the task takes a line
\* only when it is done with the one before, Flush included; and when the
\* child takes what is written, everything handed over has reached its
\* stdin once the task waits for the next line.
C28_WriterKeepsOrder ==
  /\ IsPrefix(thr.stdin \o thr.buf, WithNewlines(thr.given))
  /\ thr.flushes = IF thr.wpc = "recv" THEN Len(thr.given)
                                       ELSE Len(thr.given) - 1
  /\ (thr.child = "silent" /\ thr.wpc = "recv") =>
       (thr.stdin = WithNewlines(thr.given) /\ thr.buf = <<>>)

\* start and the step of a first StepInto have been written to a child
\* that takes them
C28_Witness ==
  /\ thr.child = "silent" /\ thr.wpc = "recv"
  /\ thr.stdin = <<"b 1", "\n", "run", "\n", "s", "\n">>
  /\ thr.flushes = 3

\* Command p does not supply flag f.
Omits(p, f) == FlagAt(p, f) = {}

Pending == Held("stdout") \o rd.pipe["stdout"]

C32_SourceFailureAnsweredEmpty ==
  (pc = "write" /\ parts[1] = "source"
     /\ stripAbsFilePrefix(fileName) \notin DOMAIN FileContent) =>
    /\ resp.kind = "response"
    /\ resp.attrs["command"] = "source"
    /\ resp.payload = [t |-> "nil"]
    /\ ~resp.raw
    /\ "encoding" \notin DOMAIN resp.attrs
    /\ called = {}
    /\ ENABLED WriteEnvelope

\* a source command that names no file: the name is empty and cannot be
\* opened
C32_Witness ==
  /\ pc = "write" /\ parts = <<"source", "-i", "1">> /\ fileName = ""
  /\ resp.payload.t = "nil" /\ resp.attrs["transaction_id"] = "1"

\* The capabilities that answer without the console.
Quiet == {"Status", "Features", "StackDepth", "ContextNames"}

====
